---- MODULE Spec2Model ----
(***************************************************************************)
(* Rusteroids: the frame loop of src/main.rs with the systems of           *)
(* src/mechanics.rs, src/asteroid.rs and src/player.rs.                    *)
(*                                                                         *)
(* Units.  f32 lengths are kept in fixed point with one decimal digit      *)
(* (Unit steps per length unit) and durations in tenths of a second (Unit  *)
(* ticks per second), so that  position + velocity * delta  is exact for   *)
(* every velocity (units per second) and every delta (ticks).              *)
(* Angles.  Headings are unit vectors kept in fifths (<<3, 4>> is the      *)
(* direction (0.6, 0.8)); the player's rotation is kept in quarter turns.  *)
(* Scheduling.  The Update systems carry no ordering constraint (no        *)
(* .chain(), .before() or .after()), so within a frame they run in any     *)
(* order; their Commands are deferred to the end of the Update schedule.   *)
(***************************************************************************)
EXTENDS Integers, Sequences, FiniteSets, TLC

VARIABLES
    state,        \* State<GameState>
    next_state,   \* NextState<GameState>: "Unchanged" or the pending state
    window,       \* <<width, height>> of the one Window entity, in length units,
                  \* or <<>> when there is none
    delta,        \* Time::delta() of every frame, in ticks
    horizon,      \* the number of frames the run is followed for
    entities,     \* the world: a set of entity records
    next_id,      \* the next entity id to allocate
    commands,     \* the deferred Commands each system has queued in this frame
    score,        \* Score(u32)
    spawn_timer,  \* elapsed ticks of AsteroidSpawnTimer (repeating)
    input,        \* the frame's ButtonInput and asset readiness
    phase,        \* position in the Main schedule
    pending,      \* the Update systems still to run in this frame, in order
    assets,       \* AssetServer: which of the two sprites are loaded
    frame,        \* number of frames run after Loading
    steers,       \* number of frames with a rotation or thrust key held
    round,        \* number of entries into Playing
    hist          \* history of the running frame / round, for the properties

vars == <<state, next_state, window, delta, horizon, entities, next_id, commands,
          score, spawn_timer, input, phase, pending, assets, frame, steers, round, hist>>

(***************************************************************************)
(* Bounds of the model                                                     *)
(***************************************************************************)
MaxFrames == 3
MaxSteer == 1
\* Frames of the run of the approach scenario.
ScenarioFrames == 11
\* Frames of the run of the injection scenario.
InjectionFrames == 3

(***************************************************************************)
(* Program constants                                                       *)
(***************************************************************************)
Unit == 10
BULLET_SPEED == 500
BULLET_LIFETIME == 2
BULLET_SIZE == 10
BULLET_STANDOFF == 20
PLAYER_SIZE == 50
PLAYER_THRUST_FORCE == 100
ASTEROID_LARGE_SPEED == 50
ASTEROID_MEDIUM_SPEED == 75
ASTEROID_SMALL_SPEED == 100
INITIAL_ASTEROIDS == 4
MIN_SPAWN_DISTANCE == 100
SPAWN_PERIOD == 5
SPAWN_MARGIN == 50
FRAGMENTS == 2

\* The sizes matched on in the collision passes (mechanics.rs:133-137, 182-186).
CollisionSize(size) ==
    CASE size = "Large" -> 80
      [] size = "Medium" -> 40
      [] size = "Small" -> 20

(***************************************************************************)
(* Inputs drawn by the environment and by rand::thread_rng()               *)
(***************************************************************************)
\* Window size (main.rs:279 sets 800 x 600; the window is resizable), frame
\* time in ticks (0.1 s, 1.5 s, 2.0 s, 3.0 s and 10 s) and number of frames of a run
\* (a run of 10 s frames is followed for two frames less than the others).
Configs ==
    {<<<<800, 600>>, 1, MaxFrames>>, <<<<800, 600>>, 15, MaxFrames>>,
     <<<<800, 600>>, 20, MaxFrames>>, <<<<800, 600>>, 30, MaxFrames>>,
     <<<<800, 600>>, 100, MaxFrames - 2>>,
     <<<<3200, 2400>>, 15, MaxFrames>>, <<<<100, 100>>, 15, MaxFrames>>}
\* The runs in which the closing of the window is followed.
ClosingConfigs == {<<<<800, 600>>, 20, MaxFrames>>}
\* The key states sampled in a frame: idle, Space pressed in this frame and
\* still down, Space held down since an earlier frame, thrust, rotate left, and
\* Space pressed while rotating left.  fire is the press edge of Space
\* (just_pressed), held its level (pressed).
Inputs ==
    {[fire |-> FALSE, held |-> FALSE, rot |-> 0, thrust |-> FALSE],
     [fire |-> TRUE, held |-> TRUE, rot |-> 0, thrust |-> FALSE],
     [fire |-> FALSE, held |-> TRUE, rot |-> 0, thrust |-> FALSE],
     [fire |-> FALSE, held |-> FALSE, rot |-> 0, thrust |-> TRUE],
     [fire |-> FALSE, held |-> FALSE, rot |-> 1, thrust |-> FALSE],
     [fire |-> TRUE, held |-> TRUE, rot |-> 1, thrust |-> FALSE]}
\* keyboard_input.just_pressed(KeyCode::Space)
just_pressed_level(in) == in.held
just_pressed(in) == in.fire
\* Positions sampled by the seeding loop (asteroid.rs:68-70), in length units.
SeedSamples == {<<0, 110>>, <<30, 40>>}
\* Headings sampled for seeded asteroids and for the fragments of a collision
\* pass (every asteroid hit in one pass gets the same pair of draws), in fifths.
SeedHeadings == <<<<0, -5>>, <<5, 0>>>>
FragmentHeadings == {<<0, -5>>, <<-3, 4>>}
\* Edges sampled by the periodic spawner (main.rs:141).
Edges == 0..3

(***************************************************************************)
(* Entities and commands                                                   *)
(***************************************************************************)
Entity(tag, x, y, vx, vy, size, parent) ==
    [id |-> 0, tag |-> tag, x |-> x, y |-> y, vx |-> vx, vy |-> vy, rot |-> 0,
     size |-> size, life |-> 0, age |-> 0, born |-> round, parent |-> parent]

NoEntity == Entity("None", 0, 0, 0, 0, "None", 0)

Players == {e \in entities : e.tag = "Player"}
Asteroids == {e \in entities : e.tag = "Asteroid"}
Bullets == {e \in entities : e.tag = "Bullet"}

SpawnCmd(ent, by) == [op |-> "spawn", id |-> 0, ent |-> ent, by |-> by]
\* (a despawn command carries the entity id; ent records the entity as the
\* system read it, for the properties)
DespawnCmd(e, by) == [op |-> "despawn", id |-> e.id, ent |-> e, by |-> by]

\* A sequence holding the elements of a finite set, in some fixed order.
RECURSIVE SetToSeq(_)
SetToSeq(S) ==
    IF S = {} THEN <<>>
    ELSE LET e == CHOOSE x \in S : TRUE IN <<e>> \o SetToSeq(S \ {e})

RECURSIVE Flatten(_)
Flatten(ss) == IF ss = <<>> THEN <<>> ELSE Head(ss) \o Flatten(Tail(ss))

\* Applying a command queue to the world: spawn allocates the next id, despawn
\* removes the entity if it is still there (a second despawn only logs).
\* (an entity id is never given to a second entity, so the despawn of an
\* entity that is already gone finds nothing)
Despawn_reused(ents, id) ==
    IF \E e \in ents : e.id = id
    THEN {e \in ents : e.id # id}
    ELSE ents \ {CHOOSE e \in ents : \A f \in ents : f.id <= e.id}
Despawn(ents, id) == {e \in ents : e.id # id}

RECURSIVE ApplyCommands(_, _, _)
ApplyCommands(cmds, ents, nid) ==
    IF cmds = <<>> THEN <<ents, nid>>
    ELSE LET c == Head(cmds) IN
         IF c.op = "spawn"
         THEN ApplyCommands(Tail(cmds), ents \cup {[c.ent EXCEPT !.id = nid]}, nid + 1)
         ELSE ApplyCommands(Tail(cmds), Despawn(ents, c.id), nid)

(***************************************************************************)
(* Geometry and timers                                                     *)
(***************************************************************************)
\* windows.single(): Err when there is no Window entity.
NoWindow == <<>>
single_window == IF window = NoWindow THEN "Err" ELSE "Ok"

HalfWidth == (window[1] * Unit) \div 2
HalfHeight == (window[2] * Unit) \div 2

\* Vec3::distance compared with a bound, both squared.
Abs(n) == IF n < 0 THEN -n ELSE n
\* (a coordinate difference of at least the bound decides the comparison, and
\* is not squared)
DistanceLess(ax, ay, bx, by, bound) ==
    /\ Abs(ax - bx) < bound
    /\ Abs(ay - by) < bound
    /\ (ax - bx) * (ax - bx) + (ay - by) * (ay - by) < bound * bound
DistanceGreater(ax, ay, bx, by, bound) ==
    \/ Abs(ax - bx) > bound
    \/ Abs(ay - by) > bound
    \/ (ax - bx) * (ax - bx) + (ay - by) * (ay - by) > bound * bound

\* rotation * Vec3::Y for a rotation of rot quarter turns, in fifths.
Forward(rot) ==
    CASE rot = 0 -> <<0, 5>>
      [] rot = 1 -> <<-5, 0>>
      [] rot = 2 -> <<0, -5>>
      [] rot = 3 -> <<5, 0>>

\* Vec2::new(angle.cos() * speed, angle.sin() * speed) for a heading in fifths.
Velocity(dir, speed) == <<(dir[1] * speed) \div 5, (dir[2] * speed) \div 5>>

\* Timer::from_seconds(secs, _).duration(), in ticks.
Duration(secs) == secs * Unit
\* Timer::tick of a TimerMode::Once timer: the elapsed time stops at the duration.
TickOnce(elapsed, duration) ==
    IF elapsed + delta >= duration THEN duration ELSE elapsed + delta
\* Timer::finished.
Finished_late(elapsed, duration) == elapsed > duration
Finished(elapsed, duration) == elapsed >= duration
\* Timer::tick of a TimerMode::Repeating timer, and Timer::just_finished after it.
TickRepeating(elapsed, duration) == (elapsed + delta) % duration
JustFinished(elapsed, duration) == elapsed + delta >= duration

(***************************************************************************)
(* The schedule                                                            *)
(***************************************************************************)
\* The run_if(in_state(..)) condition of every Update system.
RunIf_drifting(sys) ==
    CASE sys = "check_assets_loaded" -> "Loading"
      [] sys \in {"handle_game_over_input", "move_bullets", "spawn_asteroids_over_time"} -> "GameOver"
      [] OTHER -> "Playing"
RunIf_playing(sys) ==
    CASE sys = "check_assets_loaded" -> "Loading"
      [] OTHER -> "Playing"
RunIf(sys) ==
    CASE sys = "check_assets_loaded" -> "Loading"
      [] sys = "handle_game_over_input" -> "GameOver"
      [] OTHER -> "Playing"

Systems ==
    {"check_assets_loaded", "handle_game_over_input", "spawn_asteroids_over_time",
     "move_asteroids", "player_movement", "spawn_bullet", "move_bullets",
     "despawn_bullets", "wrap_around_screen", "despawn_out_of_bounds_bullets",
     "bullet_asteroid_collision", "player_asteroid_collision"}

\* The pass of the frame order of the design (Movement, Wrap, Projectile
\* Lifecycle, Collision) a system belongs to; 0 for the systems outside it.
Pass(sys) ==
    CASE sys \in {"move_asteroids", "player_movement", "move_bullets"} -> 1
      [] sys = "wrap_around_screen" -> 2
      [] sys \in {"spawn_bullet", "despawn_bullets", "despawn_out_of_bounds_bullets"} -> 3
      [] sys \in {"bullet_asteroid_collision", "player_asteroid_collision"} -> 4
      [] OTHER -> 0

\* The orders in which the executor is taken to run the systems of a frame:
\* the order of the design, its reverse (so that every pair of systems runs in
\* both orders), the order of registration (main.rs:308-324), one that runs
\* the collision passes between Movement and Wrap, and one that runs the
\* projectile lifecycle and the collision passes before Movement.
Schedules ==
    {<<"check_assets_loaded", "handle_game_over_input",
       "move_asteroids", "player_movement", "move_bullets", "wrap_around_screen",
       "spawn_bullet", "despawn_bullets", "despawn_out_of_bounds_bullets",
       "bullet_asteroid_collision", "player_asteroid_collision",
       "spawn_asteroids_over_time">>,
     <<"spawn_asteroids_over_time", "player_asteroid_collision",
       "bullet_asteroid_collision", "despawn_out_of_bounds_bullets",
       "despawn_bullets", "spawn_bullet", "wrap_around_screen", "move_bullets",
       "player_movement", "move_asteroids",
       "handle_game_over_input", "check_assets_loaded">>,
     <<"check_assets_loaded", "move_asteroids", "handle_game_over_input",
       "spawn_asteroids_over_time", "player_movement", "spawn_bullet",
       "move_bullets", "despawn_bullets", "wrap_around_screen",
       "despawn_out_of_bounds_bullets", "bullet_asteroid_collision",
       "player_asteroid_collision">>,
     <<"check_assets_loaded", "handle_game_over_input",
       "move_asteroids", "player_movement", "move_bullets",
       "despawn_bullets", "bullet_asteroid_collision", "player_asteroid_collision",
       "wrap_around_screen", "despawn_out_of_bounds_bullets", "spawn_bullet",
       "spawn_asteroids_over_time">>,
     <<"handle_game_over_input", "check_assets_loaded",
       "spawn_asteroids_over_time", "spawn_bullet", "despawn_bullets",
       "despawn_out_of_bounds_bullets", "bullet_asteroid_collision",
       "player_asteroid_collision", "wrap_around_screen", "move_asteroids",
       "player_movement", "move_bullets">>}

\* The systems of a schedule whose run condition holds in state st.
RECURSIVE Enabled(_, _)
Enabled(sched, st) ==
    IF sched = <<>> THEN <<>>
    ELSE IF RunIf(Head(sched)) = st
         THEN <<Head(sched)>> \o Enabled(Tail(sched), st)
         ELSE Enabled(Tail(sched), st)

Range(f) == {f[i] : i \in DOMAIN f}

\* The systems that have run in this frame.
Done == {s \in Systems : RunIf(s) = state} \ Range(pending)

\* A system runs when the Update schedule is running and it is the next one.
Runs(sys) == phase = "Update" /\ pending # <<>> /\ Head(pending) = sys

\* History kept when a system runs: whether a system of a later pass ran first.
Ran(sys) ==
    [hist EXCEPT !.out_of_order =
        @ \/ (Pass(sys) > 0 /\ \E t \in Done : Pass(t) > Pass(sys))]

\* The deferred command queues, one per system, all empty.
NoCommands == [s \in Systems |-> <<>>]

NewFrameHist ==
    [hist EXCEPT !.out_of_order = FALSE, !.overlap_seen = FALSE,
                 !.dead_bullet_hit = FALSE, !.teleported = {}]

\* The state after construction, for a run followed for cut frames less than
\* its configuration says.
Start(cut) ==
    /\ state = "Loading"
    /\ next_state = "Unchanged"
    /\ \E c \in Configs : window = c[1] /\ delta = c[2] /\ horizon = c[3] - cut
    /\ entities = {}
    /\ next_id = 1
    /\ commands = NoCommands
    /\ score = 0
    /\ spawn_timer = 0
    /\ input = [fire |-> FALSE, held |-> FALSE, rot |-> 0, thrust |-> FALSE]
    /\ phase = "PreUpdate"
    /\ pending = <<>>
    /\ assets = [player |-> FALSE, asteroid |-> FALSE]
    /\ frame = 0
    /\ steers = 0
    /\ round = 0
    /\ hist = [kills |-> 0, out_of_order |-> FALSE, overlap_seen |-> FALSE,
               dead_bullet_hit |-> FALSE, teleported |-> {}, round_frame |-> 0]

Init == Start(0)

(***************************************************************************)
(* PreUpdate: the frame's input is sampled and the asset server progresses *)
(***************************************************************************)
\* (the window may be closed, which despawns the Window entity; the app exits
\* at the end of a frame that finds no window left)
PreUpdate ==
    /\ phase = "PreUpdate"
    /\ frame < horizon
    /\ window # NoWindow
    /\ \E closed \in BOOLEAN :
        /\ closed => <<window, delta, horizon>> \in ClosingConfigs
        /\ window' = IF closed THEN NoWindow ELSE window
    /\ \E in \in Inputs, pl \in BOOLEAN, al \in BOOLEAN :
        /\ (in.rot # 0 \/ in.thrust) => (state = "Playing" /\ steers < MaxSteer)
        /\ (in.held /\ ~in.fire) => input.held
        /\ input' = in
        /\ steers' = IF in.rot # 0 \/ in.thrust THEN steers + 1 ELSE steers
        /\ assets' = [player |-> assets.player \/ pl, asteroid |-> assets.asteroid \/ al]
    /\ phase' = "StateTransition"
    /\ UNCHANGED <<state, next_state, delta, horizon, entities, next_id, commands,
                   score, spawn_timer, pending, frame, round, hist>>

(***************************************************************************)
(* OnEnter(GameState::Playing)                                             *)
(***************************************************************************)
spawn_player == Entity("Player", 0, 0, 0, 0, "None", 0)

\* The samples the seeding loop can draw in the window, and those it accepts.
WindowSamples ==
    {p \in SeedSamples : /\ -(window[1] \div 2) <= p[1] /\ p[1] < window[1] \div 2
                         /\ -(window[2] \div 2) <= p[2] /\ p[2] < window[2] \div 2}
AcceptedSamples ==
    {p \in WindowSamples : DistanceGreater(p[1], p[2], 0, 0, MIN_SPAWN_DISTANCE)}

spawn_asteroid_moved(size, x, y, velocity, parent) ==
    Entity("Asteroid", x + velocity[1] * delta, y + velocity[2] * delta,
           velocity[1], velocity[2], size, parent)
spawn_asteroid(size, x, y, velocity, parent) ==
    Entity("Asteroid", x, y, velocity[1], velocity[2], size, parent)

\* What the seeding draws: for each asteroid the position the loop accepts and
\* a heading.  Entity ids are opaque, so the draws are taken in the order of
\* SeedHeadings: any other order gives the same world up to the ids.
SeedDraws ==
    {d \in [1..INITIAL_ASTEROIDS -> AcceptedSamples \X (1..Len(SeedHeadings))] :
        \A i \in 1..(INITIAL_ASTEROIDS - 1) : d[i][2] <= d[i + 1][2]}

\* The commands of spawn_initial_asteroids for the accepted draws.
spawn_initial_asteroids(draws) ==
    [i \in 1..INITIAL_ASTEROIDS |->
        SpawnCmd(spawn_asteroid("Large", draws[i][1][1] * Unit, draws[i][1][2] * Unit,
                                Velocity(SeedHeadings[draws[i][2]], ASTEROID_LARGE_SPEED), 0),
                 "spawn_game_entities")]

spawn_game_entities(draws) ==
    <<SpawnCmd(spawn_player, "spawn_game_entities")>> \o spawn_initial_asteroids(draws)

\* Entities created while entering a round belong to the round entered.
RECURSIVE BornIn(_, _)
BornIn(cmds, r) ==
    IF cmds = <<>> THEN <<>>
    ELSE <<[Head(cmds) EXCEPT !.ent.born = r]>> \o BornIn(Tail(cmds), r)

(***************************************************************************)
(* StateTransition: NextState is applied, OnEnter runs, Update is planned  *)
(***************************************************************************)
\* How spawn_initial_asteroids ends: it panics on windows.single().unwrap()
\* without a window, never leaves its sampling loop when no position of the
\* window is accepted, and returns otherwise.
SeedingOutcome ==
    IF single_window = "Err" THEN "Panicked"
    ELSE IF AcceptedSamples = {} THEN "Seeding"
    ELSE "Returned"

\* The Update schedule of a frame in state st is planned.
PlanUpdate(st) ==
    /\ \E sched \in Schedules : pending' = Enabled(sched, st)
    /\ phase' = "Update"
    /\ frame' = IF st = "Loading" THEN frame ELSE frame + 1

StateTransition ==
    /\ phase = "StateTransition"
    /\ IF next_state \notin {"Unchanged", state}
       THEN /\ state' = next_state
            /\ IF next_state = "Playing"
               THEN /\ round' = round + 1
                    /\ IF SeedingOutcome = "Returned"
                       THEN /\ \E draws \in SeedDraws :
                                 LET res == ApplyCommands(
                                                BornIn(spawn_game_entities(draws), round + 1),
                                                entities, next_id)
                                 IN /\ entities' = res[1]
                                    /\ next_id' = res[2]
                            /\ PlanUpdate(next_state)
                       ELSE /\ phase' = SeedingOutcome
                            /\ UNCHANGED <<entities, next_id, pending, frame>>
               ELSE /\ PlanUpdate(next_state)
                    /\ UNCHANGED <<entities, next_id, round>>
       ELSE /\ PlanUpdate(state)
            /\ UNCHANGED <<state, entities, next_id, round>>
    /\ next_state' = "Unchanged"
    /\ hist' = [NewFrameHist EXCEPT
                  !.round_frame = IF next_state = "Playing" /\ state # "Playing"
                                  THEN frame ELSE @]
    /\ UNCHANGED <<window, delta, horizon, commands, score, spawn_timer, input, assets,
                   steers>>

(***************************************************************************)
(* Update systems of main.rs                                               *)
(***************************************************************************)
\* player_loaded && asteroid_loaded
AssetsLoaded_either(a) == a.player \/ a.asteroid
AssetsLoaded(a) == a.player /\ a.asteroid

check_assets_loaded ==
    /\ Runs("check_assets_loaded")
    /\ next_state' = IF AssetsLoaded(assets) THEN "Playing" ELSE next_state
    /\ pending' = Tail(pending)
    /\ hist' = Ran("check_assets_loaded")
    /\ UNCHANGED <<state, window, delta, horizon, entities, next_id, commands, score,
                   spawn_timer, input, phase, assets, frame, steers, round>>

\* The entities of the chained queries of the restart.
RestartQuery_no_asteroids == SetToSeq(Players) \o SetToSeq(Bullets)
RestartQuery == SetToSeq(Players) \o SetToSeq(Bullets) \o SetToSeq(Asteroids)

\* The despawn commands of the restart.
RestartDespawns ==
    [i \in 1..Len(RestartQuery) |-> DespawnCmd(RestartQuery[i], "handle_game_over_input")]

\* score.0 = 0
ResetScore_bonus(old) == old + 1
ResetScore(old) == 0

\* The restart writes nothing to AsteroidSpawnTimer.
RestartTimer_reset(old) == 0
RestartTimer(old) == old

\* game_state.set(GameState::Playing) of the restart.
RestartTarget_Loading == "Loading"
RestartTarget == "Playing"

handle_game_over_input ==
    /\ Runs("handle_game_over_input")
    /\ IF just_pressed(input)
       THEN /\ commands' = [commands EXCEPT !["handle_game_over_input"] = RestartDespawns]
            /\ score' = ResetScore(score)
            /\ next_state' = RestartTarget
            /\ spawn_timer' = RestartTimer(spawn_timer)
            /\ hist' = [Ran("handle_game_over_input") EXCEPT !.kills = 0]
       ELSE /\ UNCHANGED <<commands, score, next_state, spawn_timer>>
            /\ hist' = Ran("handle_game_over_input")
    /\ pending' = Tail(pending)
    /\ UNCHANGED <<state, window, delta, horizon, entities, next_id, input,
                   phase, assets, frame, steers, round>>

\* The position 50 units outside the drawn edge and the heading to the centre
\* (the coordinate along the edge and the angle offset are drawn as 0).
EdgePosition_on_edge(edge) ==
    CASE edge = 0 -> <<0, HalfHeight>>
      [] edge = 1 -> <<0, -HalfHeight>>
      [] edge = 2 -> <<-HalfWidth, 0>>
      [] OTHER -> <<HalfWidth, 0>>
EdgePosition(edge) ==
    CASE edge = 0 -> <<0, HalfHeight + SPAWN_MARGIN * Unit>>
      [] edge = 1 -> <<0, -HalfHeight - SPAWN_MARGIN * Unit>>
      [] edge = 2 -> <<-HalfWidth - SPAWN_MARGIN * Unit, 0>>
      [] OTHER -> <<HalfWidth + SPAWN_MARGIN * Unit, 0>>
EdgeHeading(edge) ==
    CASE edge = 0 -> <<0, -5>>
      [] edge = 1 -> <<0, 5>>
      [] edge = 2 -> <<5, 0>>
      [] OTHER -> <<-5, 0>>

\* The number of asteroids a tick of the spawn timer injects: one when the
\* timer just finished, however many periods the tick completed.
Injections_backlog(elapsed, duration) == (elapsed + delta) \div duration
Injections(elapsed, duration) == IF JustFinished(elapsed, duration) THEN 1 ELSE 0

spawn_asteroids_over_time ==
    /\ Runs("spawn_asteroids_over_time")
    /\ spawn_timer' = TickRepeating(spawn_timer, Duration(SPAWN_PERIOD))
    /\ \E edge \in Edges :
         commands' = [commands EXCEPT !["spawn_asteroids_over_time"] =
             [i \in 1..(IF single_window = "Err" THEN 0
                        ELSE Injections(spawn_timer, Duration(SPAWN_PERIOD))) |->
                 SpawnCmd(spawn_asteroid("Large", EdgePosition(edge)[1],
                                         EdgePosition(edge)[2],
                                         Velocity(EdgeHeading(edge), ASTEROID_LARGE_SPEED),
                                         0),
                          "spawn_asteroids_over_time")]]
    /\ phase' = IF JustFinished(spawn_timer, Duration(SPAWN_PERIOD))
                   /\ single_window = "Err"
                THEN "Panicked" ELSE phase
    /\ pending' = Tail(pending)
    /\ hist' = Ran("spawn_asteroids_over_time")
    /\ UNCHANGED <<state, next_state, window, delta, horizon, entities, next_id, score,
                   input, assets, frame, steers, round>>

(***************************************************************************)
(* Movement: asteroid.rs, player.rs, mechanics.rs                          *)
(***************************************************************************)
\* translation += velocity * time.delta_secs()
Move_clamped(e) ==
    [e EXCEPT !.x = IF Abs(@ + e.vx * delta) > HalfWidth THEN e.x ELSE @ + e.vx * delta,
              !.y = IF Abs(@ + e.vy * delta) > HalfHeight THEN e.y ELSE @ + e.vy * delta]
Move(e) == [e EXCEPT !.x = @ + e.vx * delta, !.y = @ + e.vy * delta]

move_asteroids ==
    /\ Runs("move_asteroids")
    /\ entities' = {IF e.tag = "Asteroid" THEN Move(e) ELSE e : e \in entities}
    /\ pending' = Tail(pending)
    /\ hist' = Ran("move_asteroids")
    /\ UNCHANGED <<state, next_state, window, delta, horizon, next_id, commands, score,
                   spawn_timer, input, phase, assets, frame, steers, round>>

move_bullets ==
    /\ Runs("move_bullets")
    /\ entities' = {IF e.tag = "Bullet" THEN Move(e) ELSE e : e \in entities}
    /\ pending' = Tail(pending)
    /\ hist' = Ran("move_bullets")
    /\ UNCHANGED <<state, next_state, window, delta, horizon, next_id, commands, score,
                   spawn_timer, input, phase, assets, frame, steers, round>>

\* rotate_z by the rotation input, in quarter turns.
Rotate(e) == [e EXCEPT !.rot = (@ + input.rot + 4) % 4]
\* player_velocity += forward * PLAYER_THRUST_FORCE * time.delta_secs()
Thrust(e) ==
    IF input.thrust
    THEN [e EXCEPT !.vx = @ + (Forward(e.rot)[1] * PLAYER_THRUST_FORCE * delta) \div (5 * Unit),
                   !.vy = @ + (Forward(e.rot)[2] * PLAYER_THRUST_FORCE * delta) \div (5 * Unit)]
    ELSE e

player_movement ==
    /\ Runs("player_movement")
    /\ IF Cardinality(Players) = 1
       THEN entities' = {IF e.tag = "Player" THEN Move(Thrust(Rotate(e))) ELSE e : e \in entities}
       ELSE UNCHANGED entities
    /\ pending' = Tail(pending)
    /\ hist' = Ran("player_movement")
    /\ UNCHANGED <<state, next_state, window, delta, horizon, next_id, commands, score,
                   spawn_timer, input, phase, assets, frame, steers, round>>

(***************************************************************************)
(* Wrap                                                                    *)
(***************************************************************************)
WrapCoordinate_modulo(c, half) ==
    IF c > half THEN c - 2 * half ELSE IF c < -half THEN c + 2 * half ELSE c
WrapCoordinate_reflect(c, half) ==
    IF c > half THEN -c ELSE IF c < -half THEN -c ELSE c
WrapCoordinate(c, half) ==
    IF c > half THEN -half ELSE IF c < -half THEN half ELSE c

Wrap(e) == [e EXCEPT !.x = WrapCoordinate(@, HalfWidth), !.y = WrapCoordinate(@, HalfHeight)]

wrap_around_screen ==
    /\ Runs("wrap_around_screen")
    /\ IF single_window = "Ok"
       THEN entities' = {IF e.tag \in {"Player", "Asteroid"} THEN Wrap(e) ELSE e :
                            e \in entities}
       ELSE UNCHANGED entities
    /\ pending' = Tail(pending)
    /\ hist' = [Ran("wrap_around_screen") EXCEPT
                  !.teleported = @ \cup {e \in entities : e \notin entities'}]
    /\ UNCHANGED <<state, next_state, window, delta, horizon, next_id, commands, score,
                   spawn_timer, input, phase, assets, frame, steers, round>>

(***************************************************************************)
(* Projectile lifecycle                                                    *)
(***************************************************************************)
\* The bullet spawned for player p: 20 units ahead, BULLET_SPEED along forward.
BulletOf(p) ==
    Entity("Bullet",
           p.x + (Forward(p.rot)[1] * BULLET_STANDOFF * Unit) \div 5,
           p.y + (Forward(p.rot)[2] * BULLET_STANDOFF * Unit) \div 5,
           Velocity(Forward(p.rot), BULLET_SPEED)[1],
           Velocity(Forward(p.rot), BULLET_SPEED)[2], "None", 0)

spawn_bullet ==
    /\ Runs("spawn_bullet")
    /\ IF just_pressed(input) /\ Cardinality(Players) = 1
       THEN commands' = [commands EXCEPT !["spawn_bullet"] =
                <<SpawnCmd(BulletOf(CHOOSE p \in Players : TRUE), "spawn_bullet")>>]
       ELSE UNCHANGED commands
    /\ pending' = Tail(pending)
    /\ hist' = Ran("spawn_bullet")
    /\ UNCHANGED <<state, next_state, window, delta, horizon, entities, next_id, score,
                   spawn_timer, input, phase, assets, frame, steers, round>>

\* lifetime.0.tick(time.delta())
Age(e) == [e EXCEPT !.life = TickOnce(@, Duration(BULLET_LIFETIME)), !.age = @ + 1]
Expired(e) == Finished(e.life, Duration(BULLET_LIFETIME))

despawn_bullets ==
    /\ Runs("despawn_bullets")
    /\ entities' = {IF e.tag = "Bullet" THEN Age(e) ELSE e : e \in entities}
    /\ commands' = [commands EXCEPT !["despawn_bullets"] =
            [i \in 1..Len(SetToSeq({Age(b) : b \in {c \in Bullets : Expired(Age(c))}})) |->
                DespawnCmd(SetToSeq({Age(b) : b \in {c \in Bullets : Expired(Age(c))}})[i],
                           "despawn_bullets")]]
    /\ pending' = Tail(pending)
    /\ hist' = Ran("despawn_bullets")
    /\ UNCHANGED <<state, next_state, window, delta, horizon, next_id, score,
                   spawn_timer, input, phase, assets, frame, steers, round>>

OutOfBounds(e) ==
    \/ e.x > HalfWidth
    \/ e.x < -HalfWidth
    \/ e.y > HalfHeight
    \/ e.y < -HalfHeight

despawn_out_of_bounds_bullets ==
    /\ Runs("despawn_out_of_bounds_bullets")
    /\ IF single_window = "Ok"
       THEN commands' = [commands EXCEPT !["despawn_out_of_bounds_bullets"] =
                [i \in 1..Len(SetToSeq({b \in Bullets : OutOfBounds(b)})) |->
                    DespawnCmd(SetToSeq({b \in Bullets : OutOfBounds(b)})[i],
                               "despawn_out_of_bounds_bullets")]]
       ELSE UNCHANGED commands
    /\ pending' = Tail(pending)
    /\ hist' = Ran("despawn_out_of_bounds_bullets")
    /\ UNCHANGED <<state, next_state, window, delta, horizon, entities, next_id, score,
                   spawn_timer, input, phase, assets, frame, steers, round>>

(***************************************************************************)
(* Collision and fragmentation                                             *)
(***************************************************************************)
\* distance < size_a / 2.0 + size_b / 2.0
Collides_inclusive(a, b, size_a, size_b) ==
    (a.x - b.x) * (a.x - b.x) + (a.y - b.y) * (a.y - b.y)
        <= ((size_a * Unit) \div 2 + (size_b * Unit) \div 2)
             * ((size_a * Unit) \div 2 + (size_b * Unit) \div 2)
Collides_diameters(a, b, size_a, size_b) ==
    DistanceLess(a.x, a.y, b.x, b.y, size_a * Unit + size_b * Unit)
Collides(a, b, size_a, size_b) ==
    DistanceLess(a.x, a.y, b.x, b.y, (size_a * Unit) \div 2 + (size_b * Unit) \div 2)

\* The bullet/asteroid pairs the nested loops find colliding.
Hits_first ==
    {h \in Bullets \X Asteroids :
        /\ Collides(h[1], h[2], BULLET_SIZE, CollisionSize(h[2].size))
        /\ h[2] = CHOOSE a \in Asteroids :
                      Collides(h[1], a, BULLET_SIZE, CollisionSize(a.size))}
Hits ==
    {h \in Bullets \X Asteroids : Collides(h[1], h[2], BULLET_SIZE, CollisionSize(h[2].size))}

\* The match on the size of the asteroid hit: the fragments' size and speed.
FragmentSize(size) == IF size = "Large" THEN "Medium" ELSE "Small"
FragmentSpeed_large(size) == ASTEROID_LARGE_SPEED
FragmentSpeed(size) ==
    IF size = "Large" THEN ASTEROID_MEDIUM_SPEED ELSE ASTEROID_SMALL_SPEED
FragmentCount(size) == IF size = "Small" THEN 0 ELSE FRAGMENTS

\* The commands queued for one colliding pair, with the headings drawn.
HitCommands(h, headings) ==
    <<DespawnCmd(h[1], "bullet_asteroid_collision"),
      DespawnCmd(h[2], "bullet_asteroid_collision")>>
    \o [i \in 1..FragmentCount(h[2].size) |->
          SpawnCmd(spawn_asteroid(FragmentSize(h[2].size), h[2].x, h[2].y,
                                  Velocity(headings[i], FragmentSpeed(h[2].size)),
                                  h[2].id),
                   "bullet_asteroid_collision")]

bullet_asteroid_collision ==
    /\ Runs("bullet_asteroid_collision")
    /\ IF single_window = "Ok"
       THEN /\ \E headings \in [1..FRAGMENTS -> FragmentHeadings] :
                 commands' = [commands EXCEPT !["bullet_asteroid_collision"] =
                     Flatten([i \in 1..Len(SetToSeq(Hits)) |->
                                HitCommands(SetToSeq(Hits)[i], headings)])]
            /\ hist' = [Ran("bullet_asteroid_collision") EXCEPT
                          !.kills = @ + Cardinality({h[2].id : h \in Hits}),
                          !.dead_bullet_hit =
                              @ \/ \E h \in Hits : Expired(h[1]) \/ OutOfBounds(h[1])]
       ELSE /\ UNCHANGED commands
            /\ hist' = Ran("bullet_asteroid_collision")
    /\ pending' = Tail(pending)
    /\ UNCHANGED <<state, next_state, window, delta, horizon, entities, next_id, score,
                   spawn_timer, input, phase, assets, frame, steers, round>>

\* The asteroids the player overlaps.
Overlaps(p) ==
    {a \in Asteroids : Collides(p, a, PLAYER_SIZE, CollisionSize(a.size))}

\* commands.entity(player_entity).despawn(), once per asteroid overlapped.
PlayerHitCommands_none(p) == <<>>
PlayerHitCommands(p) ==
    [i \in 1..Cardinality(Overlaps(p)) |-> DespawnCmd(p, "player_asteroid_collision")]

\* game_state.set(GameState::GameOver)
DeathTarget_kept == next_state
DeathTarget == "GameOver"

player_asteroid_collision ==
    /\ Runs("player_asteroid_collision")
    /\ IF Cardinality(Players) = 1 /\ Overlaps(CHOOSE p \in Players : TRUE) # {}
       THEN LET p == CHOOSE q \in Players : TRUE IN
            /\ commands' = [commands EXCEPT !["player_asteroid_collision"] =
                   PlayerHitCommands(p)]
            /\ next_state' = DeathTarget
            /\ hist' = [Ran("player_asteroid_collision") EXCEPT !.overlap_seen = TRUE]
       ELSE /\ UNCHANGED <<commands, next_state>>
            /\ hist' = Ran("player_asteroid_collision")
    /\ pending' = Tail(pending)
    /\ UNCHANGED <<state, window, delta, horizon, entities, next_id, score,
                   spawn_timer, input, phase, assets, frame, steers, round>>

(***************************************************************************)
(* The end of Update: the deferred commands are applied                    *)
(***************************************************************************)
\* The order in which the systems' queues are applied.
FlushOrder ==
    <<"check_assets_loaded", "move_asteroids", "handle_game_over_input",
      "spawn_asteroids_over_time", "player_movement", "spawn_bullet",
      "move_bullets", "despawn_bullets", "wrap_around_screen",
      "despawn_out_of_bounds_bullets", "bullet_asteroid_collision",
      "player_asteroid_collision">>

ApplyDeferred ==
    /\ phase = "Update"
    /\ pending = <<>>
    /\ LET res == ApplyCommands(Flatten([i \in 1..Len(FlushOrder) |-> commands[FlushOrder[i]]]),
                                entities, next_id)
       IN /\ entities' = res[1]
          /\ next_id' = res[2]
    /\ commands' = NoCommands
    /\ phase' = "PreUpdate"
    /\ UNCHANGED <<state, next_state, window, delta, horizon, score, spawn_timer, input,
                   pending, assets, frame, steers, round, hist>>

Next ==
    \/ PreUpdate
    \/ StateTransition
    \/ check_assets_loaded
    \/ handle_game_over_input
    \/ spawn_asteroids_over_time
    \/ move_asteroids
    \/ player_movement
    \/ move_bullets
    \/ wrap_around_screen
    \/ spawn_bullet
    \/ despawn_bullets
    \/ despawn_out_of_bounds_bullets
    \/ bullet_asteroid_collision
    \/ player_asteroid_collision
    \/ ApplyDeferred

Spec == Init /\ [][Next]_vars

\* The frame loop keeps running: the frame of a Loading app begins, runs its
\* one system and ends whenever it can.  (Runs one frame shorter than those of
\* Spec.)
FairInit == Start(1)
FairSpec ==
    /\ FairInit /\ [][Next]_vars
    /\ WF_vars(PreUpdate) /\ WF_vars(StateTransition)
    /\ WF_vars(check_assets_loaded) /\ WF_vars(ApplyDeferred)

(***************************************************************************)
(* The approach scenario: a round being played in a 1200 x 600 window with *)
(* 1 s frames, the player at rest at the origin and one Large asteroid at  *)
(* (500, 0) with velocity (-50, 0).                                        *)
(***************************************************************************)
ScenarioInit ==
    /\ round = 1
    /\ state = "Playing"
    /\ next_state = "Unchanged"
    /\ window = <<1200, 600>>
    /\ delta = Unit
    /\ horizon = ScenarioFrames
    /\ entities = {[spawn_player EXCEPT !.id = 1],
                   [spawn_asteroid("Large", 500 * Unit, 0, <<-50, 0>>, 0) EXCEPT !.id = 2]}
    /\ next_id = 3
    /\ commands = NoCommands
    /\ score = 0
    /\ spawn_timer = 0
    /\ input = [fire |-> FALSE, held |-> FALSE, rot |-> 0, thrust |-> FALSE]
    /\ phase = "PreUpdate"
    /\ pending = <<>>
    /\ assets = [player |-> TRUE, asteroid |-> TRUE]
    /\ frame = 0
    /\ steers = MaxSteer
    /\ hist = [kills |-> 0, out_of_order |-> FALSE, overlap_seen |-> FALSE,
               dead_bullet_hit |-> FALSE, teleported |-> {}, round_frame |-> 0]

\* The frame loop once Loading has been left.
ScenarioNext ==
    \/ PreUpdate
    \/ StateTransition
    \/ handle_game_over_input
    \/ spawn_asteroids_over_time
    \/ move_asteroids
    \/ player_movement
    \/ move_bullets
    \/ wrap_around_screen
    \/ spawn_bullet
    \/ despawn_bullets
    \/ despawn_out_of_bounds_bullets
    \/ bullet_asteroid_collision
    \/ player_asteroid_collision
    \/ ApplyDeferred

ScenarioSpec == ScenarioInit /\ [][ScenarioNext]_vars

(***************************************************************************)
(* The Wrap pass on its own: a Playing frame in which the pass runs twice  *)
(* with nothing in between, on one entity at a position around the edges  *)
(* of the window.                                                          *)
(***************************************************************************)
\* Coordinates at, just inside and just outside the two edges of an axis (by
\* 0.1 and by 1 unit), and the centre.
WrapSamples(half) ==
    {0} \cup {half + o : o \in {-10, -1, 0, 1, 10}} \cup {o - half : o \in {-10, -1, 0, 1, 10}}

WrapInit ==
    /\ round = 1
    /\ state = "Playing"
    /\ next_state = "Unchanged"
    /\ \E c \in Configs : window = c[1] /\ delta = c[2] /\ horizon = c[3]
    /\ \E tag \in {"Player", "Asteroid", "Bullet"} :
         \E x \in WrapSamples(HalfWidth), y \in WrapSamples(HalfHeight) :
            entities = {[Entity(tag, x, y, 0, 0, IF tag = "Asteroid" THEN "Large" ELSE "None", 0)
                            EXCEPT !.id = 1]}
    /\ next_id = 2
    /\ commands = NoCommands
    /\ score = 0
    /\ spawn_timer = 0
    /\ input = [fire |-> FALSE, held |-> FALSE, rot |-> 0, thrust |-> FALSE]
    /\ phase = "Update"
    /\ pending = <<"wrap_around_screen", "wrap_around_screen">>
    /\ assets = [player |-> TRUE, asteroid |-> TRUE]
    /\ frame = 1
    /\ steers = 0
    /\ hist = [kills |-> 0, out_of_order |-> FALSE, overlap_seen |-> FALSE,
               dead_bullet_hit |-> FALSE, teleported |-> {}, round_frame |-> 0]

WrapNext == wrap_around_screen

WrapSpec == WrapInit /\ [][WrapNext]_vars

(***************************************************************************)
(* The injection scenario: a round that has been played in the 800 x 600   *)
(* window with frames of 0.1 s or 0.2 s up to the frame in which the spawn *)
(* timer finishes.  The player is at rest at the origin and one asteroid   *)
(* seeded at (0, 110) has drifted to the right since the round began.      *)
(***************************************************************************)
InjectionInit ==
    /\ round = 1
    /\ state = "Playing"
    /\ next_state = "Unchanged"
    /\ window = <<800, 600>>
    /\ delta \in {1, 2}
    /\ horizon = InjectionFrames
    /\ entities = {[spawn_player EXCEPT !.id = 1],
                   [spawn_asteroid("Large",
                                   ASTEROID_LARGE_SPEED * (Duration(SPAWN_PERIOD) - delta),
                                   110 * Unit,
                                   Velocity(SeedHeadings[2], ASTEROID_LARGE_SPEED), 0)
                       EXCEPT !.id = 2]}
    /\ next_id = 3
    /\ commands = NoCommands
    /\ score = 0
    /\ spawn_timer = Duration(SPAWN_PERIOD) - delta
    /\ input = [fire |-> FALSE, held |-> FALSE, rot |-> 0, thrust |-> FALSE]
    /\ phase = "PreUpdate"
    /\ pending = <<>>
    /\ assets = [player |-> TRUE, asteroid |-> TRUE]
    /\ frame = 0
    /\ steers = MaxSteer
    /\ hist = [kills |-> 0, out_of_order |-> FALSE, overlap_seen |-> FALSE,
               dead_bullet_hit |-> FALSE, teleported |-> {}, round_frame |-> 0]

\* The frame loop of a round being played.
InjectionNext ==
    \/ PreUpdate
    \/ StateTransition
    \/ spawn_asteroids_over_time
    \/ move_asteroids
    \/ player_movement
    \/ move_bullets
    \/ wrap_around_screen
    \/ spawn_bullet
    \/ despawn_bullets
    \/ despawn_out_of_bounds_bullets
    \/ bullet_asteroid_collision
    \/ player_asteroid_collision
    \/ ApplyDeferred

InjectionSpec == InjectionInit /\ [][InjectionNext]_vars

(***************************************************************************)
(* The collision passes on their own: a Playing frame in which the two     *)
(* passes run, in either order, on the player at the origin, the bullet it *)
(* has just fired and one asteroid placed around the reach of one of them. *)
(***************************************************************************)
\* Directions in fifths, and the distances (in ticks) from the player or the
\* bullet at which the asteroid is placed: half a unit inside the sum of the
\* radii, on it, and half a unit outside.
CollisionDirections == {<<5, 0>>, <<0, -5>>, <<3, 4>>, <<-4, 3>>}
CollisionDistances(size_a, size) ==
    {(size_a * Unit + CollisionSize(size) * Unit) \div 2 + o : o \in {-5, 0, 5}}

CollisionInit ==
    /\ round = 1
    /\ state = "Playing"
    /\ next_state = "Unchanged"
    /\ window = <<800, 600>>
    /\ delta = 1
    /\ horizon = 1
    /\ \E size \in {"Large", "Medium", "Small"}, dir \in CollisionDirections,
          from \in {"Player", "Bullet"} :
         \E d \in CollisionDistances(IF from = "Player" THEN PLAYER_SIZE ELSE BULLET_SIZE, size) :
            LET p == [spawn_player EXCEPT !.id = 1]
                b == [BulletOf(p) EXCEPT !.id = 2]
                c == IF from = "Player" THEN p ELSE b
            IN entities = {p, b,
                           [spawn_asteroid(size, c.x + (dir[1] * d) \div 5,
                                           c.y + (dir[2] * d) \div 5,
                                           Velocity(<<5, 0>>,
                                                    IF size = "Large"
                                                    THEN ASTEROID_LARGE_SPEED
                                                    ELSE FragmentSpeed(IF size = "Medium"
                                                                       THEN "Large"
                                                                       ELSE "Medium")), 0)
                               EXCEPT !.id = 3]}
    /\ next_id = 4
    /\ commands = NoCommands
    /\ score = 0
    /\ spawn_timer = 0
    /\ input = [fire |-> FALSE, held |-> FALSE, rot |-> 0, thrust |-> FALSE]
    /\ phase = "Update"
    /\ pending \in {<<"bullet_asteroid_collision", "player_asteroid_collision">>,
                    <<"player_asteroid_collision", "bullet_asteroid_collision">>}
    /\ assets = [player |-> TRUE, asteroid |-> TRUE]
    /\ frame = 1
    /\ steers = 0
    /\ hist = [kills |-> 0, out_of_order |-> FALSE, overlap_seen |-> FALSE,
               dead_bullet_hit |-> FALSE, teleported |-> {}, round_frame |-> 0]

CollisionNext ==
    \/ bullet_asteroid_collision
    \/ player_asteroid_collision
    \/ ApplyDeferred

CollisionSpec == CollisionInit /\ [][CollisionNext]_vars

(***************************************************************************)
(* Properties                                                              *)
(***************************************************************************)
\* Some command queued by system sys despawns entity e.
Despawns(sys, e) ==
    \E i \in DOMAIN commands[sys] : commands[sys][i].op = "despawn" /\ commands[sys][i].id = e.id

\* The Update schedule of the frame has run and its commands are about to be applied.
EndOfUpdate == phase = "Update" /\ pending = <<>>

\* C1: the round state starts in Loading, only the transitions Loading->Playing,
\* Playing->GameOver and GameOver->Playing are taken, and Loading is never
\* entered again once it has been left.
C1_Transitions ==
    /\ state = "Loading"
    /\ [][/\ state' # state =>
               <<state, state'>> \in {<<"Loading", "Playing">>, <<"Playing", "GameOver">>,
                                      <<"GameOver", "Playing">>}
          /\ state # "Loading" => state' # "Loading"]_vars

\* The three transitions have been taken: a second round is being played.
C1_Witness == state = "Playing" /\ round = 2

\* C2: there is at most one Player entity while Playing and none while
\* Loading or GameOver.
C2_PlayerCount ==
    /\ state = "Playing" => Cardinality(Players) <= 1
    /\ state \in {"Loading", "GameOver"} => Cardinality(Players) = 0

\* A frame boundary of the round after a death and a restart, with its one player.
C2_Witness ==
    phase = "PreUpdate" /\ round = 2 /\ state = "Playing" /\ Cardinality(Players) = 1

\* C3: Score equals a fixed positive increment times the number of asteroids
\* destroyed by projectiles since the last restart.
C3_ScoreCountsKills == \E inc \in 1..100 : score = inc * hist.kills

\* C4: every asteroid the projectile collision pass destroys is fragmented
\* exactly once: a Large one into exactly 2 Medium ones at its position, a
\* Medium one into exactly 2 Small ones, a Small one into nothing, however many
\* projectiles overlap it.
C4_FragmentedOnce ==
    LET q == commands["bullet_asteroid_collision"] IN
    \A i \in DOMAIN q :
        (q[i].op = "despawn" /\ q[i].ent.tag = "Asteroid") =>
            LET kids == {j \in DOMAIN q : q[j].op = "spawn" /\ q[j].ent.parent = q[i].id} IN
            /\ Cardinality(kids) = IF q[i].ent.size = "Small" THEN 0 ELSE 2
            /\ \A j \in kids :
                /\ q[j].ent.size = IF q[i].ent.size = "Large" THEN "Medium" ELSE "Small"
                /\ q[j].ent.x = q[i].ent.x
                /\ q[j].ent.y = q[i].ent.y

\* C5: when the player collision pass has run with the player overlapping an
\* asteroid, the player is gone at the end of that frame and the next state
\* transition enters GameOver.
C5_OverlapIsFatal ==
    /\ [](hist.overlap_seen /\ phase \in {"PreUpdate", "StateTransition"} =>
            Players = {} /\ next_state = "GameOver")
    /\ [][hist.overlap_seen /\ phase = "StateTransition" => state' = "GameOver"]_vars

\* The frame in which the overlap was detected has ended.
C5_Witness == hist.overlap_seen /\ phase = "PreUpdate" /\ state = "Playing"

\* A step of handle_game_over_input that restarts.
RestartStep == Runs("handle_game_over_input") /\ input.fire

\* C6: Score is 0 when GameOver->Playing is taken, Score is never negative, and
\* only the restart changes Score downwards.
C6_ScoreReset ==
    /\ [](score >= 0)
    /\ [][/\ RestartStep => score' = 0
          /\ (state = "GameOver" /\ state' = "Playing") => score' = 0
          /\ score' < score => RestartStep]_vars

\* The restart has just run: the transition to Playing is pending.
C6_Witness ==
    state = "GameOver" /\ next_state = "Playing" /\ score = 0 /\ Done = {"handle_game_over_input"}

\* C7: when a round is seeded the entity store is empty, so every entity belongs
\* to the round being played.
C7_RestartClears ==
    /\ [](\A e \in entities : e.born = round)
    /\ [][round' # round => entities = {}]_vars

\* A restart has queued the removal of the entities of the round that ended,
\* bullets or fragments among them.
C7_Witness ==
    /\ Len(commands["handle_game_over_input"]) > INITIAL_ASTEROIDS
    /\ round = 1

\* C8: a projectile whose lifetime timer has finished, or which is outside the
\* play rectangle, never destroys an asteroid in a collision pass.
C8_DeadBulletNeverHits == ~hist.dead_bullet_hit

\* C9: in every Playing frame the systems run in the order Movement, Wrap,
\* Projectile Lifecycle, Collision.
C9_FixedOrder == ~hist.out_of_order

\* ceil(L / dt) for the bullet lifetime and the frame time.
LifetimeTicks == (Duration(BULLET_LIFETIME) + delta - 1) \div delta

\* A removal trigger other than the lifetime has fired for bullet b in this frame.
RemovedOtherwise(b) ==
    \/ Despawns("despawn_out_of_bounds_bullets", b)
    \/ Despawns("bullet_asteroid_collision", b)
    \/ Despawns("handle_game_over_input", b)

ScenarioAsteroid == {a \in Asteroids : a.id = 2 /\ a.born = 1}

\* C11 (as stated): in the approach scenario the player collision is detected
\* on tick 10, when the asteroid has reached x = 0; the player is then removed
\* and GameOver is requested.
C11_DetectedAtTick10 ==
    round = 1 =>
        /\ hist.overlap_seen => frame = 10
        /\ (frame = 10 /\ phase = "PreUpdate") =>
                /\ hist.overlap_seen
                /\ Players = {}
                /\ next_state = "GameOver"
                /\ \A a \in ScenarioAsteroid : a.x = 0

\* C11 (amended): the collision is detected by the first collision pass that
\* finds the asteroid within 65 units, at x = 50: on tick 9 when the pass runs
\* after the movement of that frame, on tick 10 otherwise.  Until then the
\* player is alive and the round is Playing; the frame of the detection ends
\* without the player and with GameOver requested, and the asteroid is then at
\* x = 50 or x = 0.
C11_Approach ==
    round = 1 =>
        /\ hist.overlap_seen => frame \in {9, 10}
        /\ (hist.overlap_seen /\ phase = "PreUpdate") =>
                Players = {} /\ next_state = "GameOver"
        /\ frame < 9 => state = "Playing" /\ Cardinality(Players) = 1
        /\ (frame = 9 /\ phase = "StateTransition") => state = "Playing"
        /\ (frame = 10 /\ phase = "PreUpdate") =>
                /\ Players = {}
                /\ state = "GameOver" \/ next_state = "GameOver"
        /\ frame > 10 => state # "Playing"
        /\ (hist.overlap_seen \/ state = "GameOver") =>
                \A a \in ScenarioAsteroid : a.y = 0 /\ a.x \in {0, 50 * Unit}

\* The collision has been detected on tick 9, with the asteroid at x = 50.
C11_Witness ==
    /\ round = 1
    /\ frame = 9
    /\ hist.overlap_seen
    /\ phase = "PreUpdate"
    /\ \E a \in ScenarioAsteroid : a.x = 50 * Unit

\* C12: the initial seeding terminates for every window size: the app is
\* never left inside the sampling loop, which gives up after a bounded number
\* of retries when no position of the window is farther than 100 units from
\* the centre.
C12_SeedingTerminates == phase # "Seeding"

\* The systems that read the window.
WindowReaders ==
    {"wrap_around_screen", "despawn_out_of_bounds_bullets", "bullet_asteroid_collision",
     "spawn_asteroids_over_time"}

\* C13: no system reaches a fatal error, and a system that finds its singleton
\* (here the window) missing leaves the entities and the command queues as
\* they were.
C13_MissingSingletonSkips ==
    /\ [](phase # "Panicked")
    /\ [][(phase = "Update" /\ pending # <<>> /\ single_window = "Err"
            /\ Head(pending) \in WindowReaders) =>
                entities' = entities /\ commands' = commands]_vars

\* C14: a Wrap pass puts a Player or Asteroid whose x is beyond +half width at
\* -half width, one whose x is beyond -half width at +half width, keeps an x
\* with |x| <= half width, and treats y the same way, independently of x.
C14_WrapMapping ==
    [][(Runs("wrap_around_screen") /\ single_window = "Ok") =>
          \A e \in Players \cup Asteroids :
              \E f \in entities' :
                  /\ f.id = e.id
                  /\ e.x > HalfWidth => f.x = -HalfWidth
                  /\ e.x < -HalfWidth => f.x = HalfWidth
                  /\ (-HalfWidth <= e.x /\ e.x <= HalfWidth) => f.x = e.x
                  /\ e.y > HalfHeight => f.y = -HalfHeight
                  /\ e.y < -HalfHeight => f.y = HalfHeight
                  /\ (-HalfHeight <= e.y /\ e.y <= HalfHeight) => f.y = e.y]_vars

\* In the 800 x 600 window the pass has moved an asteroid from (401, 0) to (-400, 0).
C14_Witness ==
    /\ window = <<800, 600>>
    /\ \E t \in hist.teleported :
         /\ t.tag = "Asteroid" /\ t.x = 401 * Unit /\ t.y = 0
         /\ \E f \in Asteroids : f.id = t.id /\ f.x = -400 * Unit /\ f.y = 0

\* C15: a second Wrap pass with no movement in between changes no position,
\* whether the first pass moved the entity or found it on a boundary.
C15_WrapIdempotent ==
    [][(phase = "Update" /\ pending = <<"wrap_around_screen">>) =>
          entities' = entities]_vars

\* Both passes have run on a player that started in a corner of the window,
\* |x| = half width and |y| = half height.
C15_Witness ==
    /\ EndOfUpdate
    /\ hist.teleported = {}
    /\ \E e \in Players : e.x = HalfWidth /\ e.y = -HalfHeight

\* C16: the Wrap pass changes no projectile, and a projectile that is outside
\* the play rectangle at the end of a frame's Update is removed in that frame,
\* whatever is left of its lifetime.
C16_OutsideIsRemoved ==
    /\ [][Runs("wrap_around_screen") => Bullets' = Bullets]_vars
    /\ [][(EndOfUpdate /\ single_window = "Ok") =>
            \A b \in Bullets : OutOfBounds(b) => \A c \in Bullets' : c.id # b.id]_vars

\* C17: in a Playing frame spawn_bullet queues exactly one projectile when
\* Space has a press edge and there is a player, and none otherwise (Space merely
\* held, or no player); no other system creates a projectile.
C17_FireEdge ==
    (state = "Playing" /\ phase = "Update") =>
        /\ "spawn_bullet" \in Done =>
              Len(commands["spawn_bullet"]) = IF input.fire /\ Players # {} THEN 1 ELSE 0
        /\ "spawn_bullet" \notin Done => commands["spawn_bullet"] = <<>>
        /\ \A sys \in Systems :
              \A i \in DOMAIN commands[sys] :
                  (commands[sys][i].op = "spawn" /\ commands[sys][i].ent.tag = "Bullet") =>
                      sys = "spawn_bullet"

\* A frame in which Space is still held after the press that fired has run
\* to its end without a new projectile.
C17_Witness ==
    /\ EndOfUpdate
    /\ state = "Playing"
    /\ input.held /\ ~input.fire
    /\ Cardinality(Players) = 1
    /\ Cardinality(Bullets) = 1
    /\ commands["spawn_bullet"] = <<>>

\* C18: a Playing frame injects at most one asteroid, a Large one, however
\* many periods of the spawn timer the frame time spans.
C18_OncePerFrame ==
    LET q == commands["spawn_asteroids_over_time"] IN
    /\ Len(q) <= 1
    /\ \A i \in DOMAIN q :
          q[i].op = "spawn" /\ q[i].ent.tag = "Asteroid" /\ q[i].ent.size = "Large"

\* A frame whose time spans two periods of the timer has injected one asteroid.
C18_Witness ==
    /\ EndOfUpdate
    /\ delta >= 2 * Duration(SPAWN_PERIOD)
    /\ Len(commands["spawn_asteroids_over_time"]) = 1

\* C19: outside GameOver a press edge of the restart key restarts nothing: the
\* restart queues no despawn, the only state requested while Playing is
\* GameOver, after an overlap of the player, and the only state requested while
\* Loading is Playing, with both sprites loaded.
C19_RestartOnlyInGameOver ==
    /\ state # "GameOver" => commands["handle_game_over_input"] = <<>>
    /\ state = "Playing" =>
          /\ next_state \in {"Unchanged", "GameOver"}
          /\ next_state = "GameOver" => hist.overlap_seen
    /\ state = "Loading" =>
          /\ next_state \in {"Unchanged", "Playing"}
          /\ next_state = "Playing" => (assets.player /\ assets.asteroid)
          /\ entities = {}

\* A Playing frame with a press edge has ended: the player, the asteroids and
\* the projectile just fired are in the store and the round goes on.
C19_Witness ==
    /\ phase = "PreUpdate"
    /\ state = "Playing"
    /\ input.fire
    /\ next_state = "Unchanged"
    /\ Cardinality(Players) = 1
    /\ Cardinality(Asteroids) >= INITIAL_ASTEROIDS
    /\ Bullets # {}

\* C20: Loading is left only for Playing and only with both sprites loaded,
\* and once both are loaded Playing is entered, unless the app exits first
\* because its window was closed.
C20_LoadingGate ==
    /\ [][(state = "Loading" /\ state' # "Loading") =>
              (state' = "Playing" /\ assets.player /\ assets.asteroid)]_vars
    /\ [][(state = "Loading" /\ next_state' = "Playing") =>
              (assets.player /\ assets.asteroid)]_vars
    /\ (state = "Loading" /\ assets.player /\ assets.asteroid)
          ~> (state = "Playing" \/ window = NoWindow)

\* A Loading frame with only the player sprite loaded has run to its end, and
\* the round state is still Loading with no transition requested.
C20_Witness ==
    /\ state = "Loading"
    /\ phase = "PreUpdate"
    /\ assets.player /\ ~assets.asteroid
    /\ next_state = "Unchanged"

\* The asteroids within reach of bullet b, and the bullets within reach of
\* asteroid a (distance below the sum of the radii 5 and 40, 20 or 10).
AsteroidsNear(b) ==
    {a \in Asteroids :
        DistanceLess(b.x, b.y, a.x, a.y, (BULLET_SIZE * Unit + CollisionSize(a.size) * Unit) \div 2)}
BulletsNear(a) ==
    {b \in Bullets :
        DistanceLess(b.x, b.y, a.x, a.y, (BULLET_SIZE * Unit + CollisionSize(a.size) * Unit) \div 2)}

\* The positions of queue q that despawn entity e, and those that spawn a
\* fragment of it.
DespawnsOf(q, e) == {i \in DOMAIN q : q[i].op = "despawn" /\ q[i].id = e.id}
FragmentsOf(q, e) == {i \in DOMAIN q : q[i].op = "spawn" /\ q[i].ent.parent = e.id}

Fragments == {a \in Asteroids : a.parent # 0}

\* C22: an asteroid created by fragmentation is not in the store while the
\* systems of that frame run, so none of them tests, moves or wraps it: it
\* enters the store when the frame's commands are applied, at the position
\* where the collision pass read its parent, and the Movement pass of the next
\* frame moves it like any other asteroid.
C22_FragmentsNextFrame ==
    /\ [][(phase = "Update" /\ pending # <<>>) =>
            {e.id : e \in entities'} = {e.id : e \in entities}]_vars
    /\ [][EndOfUpdate =>
            \A f \in entities' :
                (f.id >= next_id /\ f.parent # 0) =>
                    LET q == commands["bullet_asteroid_collision"] IN
                    \E i \in DOMAIN q :
                        /\ q[i].op = "despawn" /\ q[i].id = f.parent
                        /\ f.x = q[i].ent.x /\ f.y = q[i].ent.y]_vars
    /\ [][Runs("move_asteroids") =>
            \A a \in Fragments :
                \E f \in entities' :
                    /\ f.id = a.id
                    /\ f.x = a.x + a.vx * delta /\ f.y = a.y + a.vy * delta]_vars

\* The Movement pass of the frame after a fragmentation has moved a fragment.
C22_Witness ==
    /\ phase = "Update"
    /\ "move_asteroids" \in Done
    /\ \E a \in Fragments : a.vx # 0 \/ a.vy # 0

\* The speed table of the size classes.
ClassSpeed(size) ==
    CASE size = "Large" -> ASTEROID_LARGE_SPEED
      [] size = "Medium" -> ASTEROID_MEDIUM_SPEED
      [] size = "Small" -> ASTEROID_SMALL_SPEED

\* C23: every asteroid in the store, and every asteroid a system has queued
\* for creation, has one of the three size classes and a velocity of the
\* magnitude of its class (Large 50, Medium 75, Small 100), and no step
\* changes the velocity or the size class of an asteroid that stays in the
\* store.
C23_ClassSpeed ==
    /\ [](\A a \in Asteroids \cup
                   {c.ent : c \in UNION {Range(commands[sys]) : sys \in Systems}} :
              a.tag = "Asteroid" =>
                  /\ a.size \in {"Large", "Medium", "Small"}
                  /\ a.vx * a.vx + a.vy * a.vy = ClassSpeed(a.size) * ClassSpeed(a.size))
    /\ [][\A a \in Asteroids : \A f \in entities' :
              f.id = a.id => (f.vx = a.vx /\ f.vy = a.vy /\ f.size = a.size)]_vars

\* Two generations of fragments are in the store: the Small fragments of a
\* Medium fragment next to a Medium one of another Large asteroid.
C23_Witness ==
    /\ \E a \in Fragments : a.size = "Small" /\ a.vx * a.vx + a.vy * a.vy = 100 * 100
    /\ \E a \in Fragments : a.size = "Medium" /\ a.vx * a.vx + a.vy * a.vy = 75 * 75

\* The store holds a freshly seeded round: one player at rest at the origin
\* and 4 Large asteroids, each inside the play rectangle and farther than 100
\* units from the centre, and nothing else.
Seeded(ents) ==
    /\ Cardinality({e \in ents : e.tag = "Player"}) = 1
    /\ \A e \in ents : e.tag = "Player" => (e.x = 0 /\ e.y = 0 /\ e.vx = 0 /\ e.vy = 0)
    /\ Cardinality({e \in ents : e.tag = "Asteroid"}) = INITIAL_ASTEROIDS
    /\ \A e \in ents :
          e.tag = "Asteroid" =>
              /\ e.size = "Large"
              /\ -HalfWidth <= e.x /\ e.x <= HalfWidth
              /\ -HalfHeight <= e.y /\ e.y <= HalfHeight
              /\ DistanceGreater(e.x, e.y, 0, 0, MIN_SPAWN_DISTANCE * Unit)
    /\ \A e \in ents : e.tag \in {"Player", "Asteroid"}

\* C24: every entry into Playing, from Loading and from a restart, leaves the
\* store with exactly one player at the origin and exactly 4 Large asteroids,
\* each inside the play rectangle and farther than 100 units from the centre.
C24_EntrySeeds ==
    [][(state # "Playing" /\ state' = "Playing") => Seeded(entities')]_vars

\* The diameters of the collision model, in length units.
Diameter(e) ==
    CASE e.tag = "Player" -> 50
      [] e.tag = "Bullet" -> 10
      [] e.size = "Large" -> 80
      [] e.size = "Medium" -> 40
      [] e.size = "Small" -> 20

\* Twice the distance of a and b is less than the sum of their diameters.
WithinReach(a, b) ==
    4 * ((a.x - b.x) * (a.x - b.x) + (a.y - b.y) * (a.y - b.y))
        < (Diameter(a) * Unit + Diameter(b) * Unit) * (Diameter(a) * Unit + Diameter(b) * Unit)
\* The distance of a and b is the sum of their radii.
Touching(a, b) ==
    4 * ((a.x - b.x) * (a.x - b.x) + (a.y - b.y) * (a.y - b.y))
        = (Diameter(a) * Unit + Diameter(b) * Unit) * (Diameter(a) * Unit + Diameter(b) * Unit)

Triggers(b) ==
    {sys \in {"despawn_bullets", "despawn_out_of_bounds_bullets", "bullet_asteroid_collision"} :
        Despawns(sys, b)}

\* The entities some system has queued the removal of, and the number of
\* entities queued for creation.
Doomed == {e \in entities : \E sys \in Systems : Despawns(sys, e)}
QueuedSpawns ==
    Cardinality(UNION {{<<sys, i>> : i \in {j \in DOMAIN commands[sys] :
                                                commands[sys][j].op = "spawn"}} :
                       sys \in Systems})

Displaced(e, f) ==
    /\ f.id = e.id
    /\ f.x = e.x + f.vx * delta
    /\ f.y = e.y + f.vy * delta

\* C27: a Movement system displaces each entity of its kind (asteroids,
\* projectiles, the player) by its velocity times the frame time, whatever the
\* position reached and whatever else is in the store, and changes no entity
\* of another kind; asteroids and projectiles keep their velocity, and the
\* player is displaced by the velocity it has after the thrust of that pass.
C27_Movement ==
    /\ [][Runs("move_asteroids") =>
            /\ \A a \in Asteroids :
                  \E f \in entities' : Displaced(a, f) /\ f.vx = a.vx /\ f.vy = a.vy
            /\ \A e \in entities \ Asteroids : e \in entities']_vars
    /\ [][Runs("move_bullets") =>
            /\ \A b \in Bullets :
                  \E f \in entities' : Displaced(b, f) /\ f.vx = b.vx /\ f.vy = b.vy
            /\ \A e \in entities \ Bullets : e \in entities']_vars
    /\ [][Runs("player_movement") =>
            /\ \A p \in Players :
                  \E f \in entities' :
                      /\ Displaced(p, f)
                      /\ ~input.thrust => (f.vx = p.vx /\ f.vy = p.vy)
            /\ \A e \in entities \ Players : e \in entities']_vars

\* The Movement systems of a frame have run: the player has been displaced
\* from the origin by the velocity its thrust gave it, and a projectile has
\* been taken beyond the edge of the window.
C27_Witness ==
    /\ phase = "Update"
    /\ {"move_asteroids", "move_bullets", "player_movement"} \subseteq Done
    /\ \E p \in Players : p.vy # 0 /\ p.x = p.vx * delta /\ p.y = p.vy * delta
    /\ \E b \in Bullets : b.y > HalfHeight

\* The commands of a restart are being applied.
RestartClear ==
    state = "GameOver" /\ EndOfUpdate /\ commands["handle_game_over_input"] # <<>>

\* C28: while the round state is Loading or GameOver no step changes an
\* entity (position, velocity, lifetime), creates or removes one, or advances
\* the spawn timer, except that the application of a restart's commands in
\* GameOver removes every player, projectile and asteroid; no command but the
\* restart's despawns is queued.
C28_Frozen ==
    /\ [][(state \in {"Loading", "GameOver"} /\ state' = state) =>
            /\ spawn_timer' = spawn_timer
            /\ IF RestartClear
               THEN \A e \in entities' : e.tag \notin {"Player", "Bullet", "Asteroid"}
               ELSE entities' = entities]_vars
    /\ [](state \in {"Loading", "GameOver"} =>
            \A sys \in Systems : \A i \in DOMAIN commands[sys] :
                sys = "handle_game_over_input" /\ commands[sys][i].op = "despawn")

\* A GameOver frame without a restart has run to its end with asteroids and a
\* projectile in flight in the store and the spawn timer part of the way.
C28_Witness ==
    /\ state = "GameOver"
    /\ EndOfUpdate
    /\ commands = NoCommands
    /\ \E b \in Bullets : b.life < Duration(BULLET_LIFETIME)
    /\ Asteroids # {}
    /\ spawn_timer > 0

\* The time played in the round so far, the running frame included, in ticks.
RoundPlayTime == (frame - hist.round_frame) * delta

\* C29: nothing but the tick of spawn_asteroids_over_time in a Playing frame
\* changes the spawn timer: the restart and the entry into the new round
\* leave its elapsed time as the earlier round left it, and the frame in which
\* that elapsed time plus the frame time reaches the period injects an
\* asteroid, however short the round has been played.
C29_TimerCarried ==
    /\ [][state # "Playing" => spawn_timer' = spawn_timer]_vars
    /\ [][round' # round => spawn_timer' = spawn_timer]_vars
    /\ [][(Runs("spawn_asteroids_over_time") /\ single_window = "Ok") =>
            /\ spawn_timer' = (spawn_timer + delta) % Duration(SPAWN_PERIOD)
            /\ Len(commands'["spawn_asteroids_over_time"]) =
                  IF spawn_timer + delta >= Duration(SPAWN_PERIOD) THEN 1 ELSE 0]_vars

\* The first frame of the round after a restart injects an asteroid after
\* less than one period of play in that round, on the elapsed time carried
\* over from the round before.
C29_Witness ==
    /\ round = 2
    /\ state = "Playing"
    /\ EndOfUpdate
    /\ Len(commands["spawn_asteroids_over_time"]) = 1
    /\ delta < Duration(SPAWN_PERIOD)
    /\ RoundPlayTime < Duration(SPAWN_PERIOD)

\* The asteroid of the injection scenario that the spawn timer has injected.
Injected == {a \in Asteroids : a.id >= 3 /\ a.parent = 0}

\* Entity e lies inside the closed play rectangle.
InsideClosed(e) ==
    /\ -HalfWidth <= e.x /\ e.x <= HalfWidth
    /\ -HalfHeight <= e.y /\ e.y <= HalfHeight

====
